---- MODULE Spec2Model ----
(***************************************************************************)
(* Usage reconstruction, daily charges, exchange rates, invoice generation *)
(* and status, and the billing-cycle retry loop of wialon-billing-api, as  *)
(* state machines over the database tables the Go services read and write. *)
(*                                                                         *)
(* Calendar dates are day numbers 1..MaxDay.  A table is a bag of rows:    *)
(* the auto-increment primary key is left out, so two rows with equal      *)
(* columns are two copies of one bag element.  The invoices table keeps    *)
(* its key, which the code reads, and exchange_rates its insertion order.  *)
(***************************************************************************)
EXTENDS Integers, Sequences, FiniteSets, Bags, TLC

\* ------------------------------------------------------------ bounds
MaxDay == 3
MaxUnits == 2
MaxRuns == 2

Accounts == {1, 2}
Days == 1..MaxDay
UnitCounts == 0..MaxUnits
DeltaCounts == {0, 1}
DeactCounts == {0, 1}
DayStats == [created : DeltaCounts, deleted : DeltaCounts]

VARIABLES
    snapshots,      \* table snapshots
    selected,       \* accounts with is_billing_enabled (GetSelectedAccounts)
    currentUsage,   \* Wialon: avl_unit.usage per account (GetAccountsDataBatch)
    stats,          \* Wialon: created/deleted per account and day (GetStatistics)
    deactivated,    \* Wialon: deactivated units per account (GetAllUnitsWithStatus)
    rangeReq,       \* the from/to of the range request being replayed
    rewrote,        \* whether some call has targeted an (account, date) that already had a row
    rangeLog,       \* what the replayed calls did: their number, whether the first and the
                    \* latest had every write accepted, the table a clean first call left
    modules,        \* table modules: price (hundredths), currency, pricing_type per module id
    accountModules, \* table account_modules: the module ids assigned to each account
    billingCurrency,\* accounts.billing_currency
    exchangeRates,  \* table exchange_rates, in insertion (primary key) order
    invoices,       \* table invoices, rows with their primary key
    invoiceLines,   \* table invoice_lines
    nextInvoiceId,  \* the sequence behind invoices.id
    genLog,         \* history of the generations: the latest call and, for every invoice of
                    \* the table, what it was computed from and the invoice it replaced
    gen,            \* the generateInvoiceForAccount calls in progress: position and locals
    retry,          \* the generateInvoicesWithRetry goroutine: position, attempt and counters
    dailyCharges,   \* table daily_charges
    clock,          \* time.Now() of the invoice handlers, in ticks from 1
    callLog         \* history of the calls outside generation: the latest call with its
                    \* arguments and result, and what the tables held when it began

snapVars == <<snapshots, selected, currentUsage, stats, deactivated, rewrote, rangeReq, rangeLog>>

billVars == <<modules, accountModules, billingCurrency, exchangeRates, invoices, invoiceLines,
              nextInvoiceId, genLog>>

procVars == <<gen, retry>>

auxVars == <<dailyCharges, clock, callLog>>

vars == <<snapVars, billVars, procVars, auxVars>>

\* ------------------------------------------------------------ helpers
RECURSIVE SetToSeq(_)
SetToSeq(S) ==
    IF S = {} THEN <<>>
    ELSE LET x == CHOOSE y \in S : \A z \in S : y <= z
         IN <<x>> \o SetToSeq(S \ {x})

BagOfRows(S, n) == [r \in S |-> n]

\* ------------------------------------------------------------ snapshots table
Snapshot(a, d, total, created, deleted, deact) ==
    [account |-> a, date |-> d, total_units |-> total, units_created |-> created,
     units_deleted |-> deleted, units_deactivated |-> deact]

SnapshotsAt(tbl, a, d) == {r \in BagToSet(tbl) : r.account = a /\ r.date = d}

RowCount(tbl, a, d) ==
    BagCardinality([r \in SnapshotsAt(tbl, a, d) |-> tbl[r]])

\* db.Create without the unique index idx_snapshot_unique
InsertSnapshotNoIndex(tbl, row) == tbl (+) SetToBag({row})

\* db.Create(snapshot): idx_snapshot_unique rejects a second row of (account_id, snapshot_date)
CreateSnapshot(tbl, row) ==
    IF SnapshotsAt(tbl, row.account, row.date) # {}
    THEN tbl
    ELSE tbl (+) SetToBag({row})

\* INSERT ... ON CONFLICT (account_id, snapshot_date) DO UPDATE SET total_units, units_created,
\* units_deleted, units_deactivated
UpsertSnapshot(tbl, row) ==
    LET hit == SnapshotsAt(tbl, row.account, row.date)
    IN IF hit = {}
       THEN tbl (+) SetToBag({row})
       ELSE (tbl (-) [r \in hit |-> tbl[r]]) (+) BagOfRows({row}, RowCount(tbl, row.account, row.date))

\* ------------------------------------------------------------ backward reconstruction
\* for d := fromDate; !d.After(toDate); d = d.AddDate(0, 0, 1)
RangeDates(from, to) == [i \in 1..(to - from + 1) |-> from + i - 1]

PrevDayUsageNoFloor(nextUsage, nextDayStats) ==
    nextUsage - nextDayStats.created + nextDayStats.deleted

\* usage = usageByDate[nextDateKey] - Created + Deleted; if usage < 0 { usage = 0 }
PrevDayUsage(nextUsage, nextDayStats) ==
    LET usage == nextUsage - nextDayStats.created + nextDayStats.deleted
    IN IF usage < 0 THEN 0 ELSE usage

NextDayStatsSameDay(dailyStats, dates, i) == dailyStats[dates[i]]

\* nextDayStats := dailyStats[dates[i+1]]
NextDayStats(dailyStats, dates, i) == dailyStats[dates[i + 1]]

\* the loop  for i := len(dates) - 2; i >= 0; i--  (sequences are 1-based here)
RECURSIVE BackwardUsage(_, _, _, _)
BackwardUsage(dailyStats, dates, i, usageByDate) ==
    IF i < 1 THEN usageByDate
    ELSE LET nextDayStats == NextDayStats(dailyStats, dates, i)
             usage == PrevDayUsage(usageByDate[dates[i + 1]], nextDayStats)
         IN BackwardUsage(dailyStats, dates, i - 1, (dates[i] :> usage) @@ usageByDate)

UsageByDate(usage, dailyStats, dates) ==
    BackwardUsage(dailyStats, dates, Len(dates) - 1, (dates[Len(dates)] :> usage))

\* the snapshots of one account, in the order of the write loop
RangeRows(a, usage, dailyStats, deact, dates) ==
    LET usageByDate == UsageByDate(usage, dailyStats, dates)
    IN [i \in 1..Len(dates) |->
          Snapshot(a, dates[i], usageByDate[dates[i]], dailyStats[dates[i]].created,
                   dailyStats[dates[i]].deleted, deact)]

\* s.repo.UpsertSnapshot for each row; an upsert the database refuses is logged and skipped
RECURSIVE UpsertRows(_, _, _)
UpsertRows(tbl, rows, refused) ==
    IF rows = <<>> THEN tbl
    ELSE LET row == Head(rows)
             next == IF <<row.account, row.date>> \in refused THEN tbl
                     ELSE UpsertSnapshot(tbl, row)
         IN UpsertRows(next, Tail(rows), refused)

RECURSIVE AccountsRangeRows(_, _)
AccountsRangeRows(accs, dates) ==
    IF accs = <<>> THEN <<>>
    ELSE RangeRows(Head(accs), currentUsage[Head(accs)], stats[Head(accs)],
                   deactivated[Head(accs)], dates)
         \o AccountsRangeRows(Tail(accs), dates)

\* createSnapshotsForConnectionRange over the billing-enabled accounts
createSnapshotsForConnectionRange(tbl, accs, from, to, refused) ==
    UpsertRows(tbl, AccountsRangeRows(SetToSeq(accs), RangeDates(from, to)), refused)

\* CreateSnapshotsForRange: no accounts, a failed Login or a failed GetAccountsDataBatch
\* write nothing
CreateSnapshotsForRange(from, to, connOk, refused) ==
    /\ snapshots' =
         IF selected = {} \/ ~connOk THEN snapshots
         ELSE createSnapshotsForConnectionRange(snapshots, selected, from, to, refused)
    /\ UNCHANGED <<selected, currentUsage, stats, deactivated>>

\* ------------------------------------------------------------ snapshots for one date
\* createSnapshotsForConnection: TotalUnits from avl_unit.usage, created/deleted from the
\* first entry GetStatistics returns for the day, deactivated from GetAllUnitsWithStatus
DateRow(a, date) ==
    Snapshot(a, date, currentUsage[a], stats[a][date].created, stats[a][date].deleted,
             deactivated[a])

\* createSnapshotsViaUnits: TotalUnits counts the listed units that are not deactivated;
\* created/deleted stay 0
UnitsRow(a, date) ==
    LET activeCount == IF currentUsage[a] < deactivated[a] THEN 0
                       ELSE currentUsage[a] - deactivated[a]
    IN Snapshot(a, date, activeCount, 0, 0, deactivated[a])

\* s.repo.CreateSnapshot for each account; a failed insert is logged and skipped
RECURSIVE CreateRows(_, _, _)
CreateRows(tbl, rows, refused) ==
    IF rows = <<>> THEN tbl
    ELSE LET row == Head(rows)
             next == IF <<row.account, row.date>> \in refused THEN tbl
                     ELSE CreateSnapshot(tbl, row)
         IN CreateRows(next, Tail(rows), refused)

\* createSnapshotsForConnection, with its fallback createSnapshotsViaUnits when
\* GetAccountsDataBatch fails
createSnapshotsForConnection(tbl, accs, date, batchOk, refused) ==
    LET order == SetToSeq(accs)
        rows == [i \in 1..Len(order) |->
                   IF batchOk THEN DateRow(order[i], date) ELSE UnitsRow(order[i], date)]
    IN CreateRows(tbl, rows, refused)

\* CreateSnapshotsForDate: no accounts or a failed Login write nothing
CreateSnapshotsForDate(date, connOk, batchOk, refused) ==
    /\ snapshots' =
         IF selected = {} \/ ~connOk THEN snapshots
         ELSE createSnapshotsForConnection(snapshots, selected, date, batchOk, refused)
    /\ UNCHANGED <<selected, currentUsage, stats, deactivated>>

\* s.repo.HasSnapshotsForDate(snapshotDate): some snapshot row carries the date
HasSnapshotsForDate(tbl, date) == \E r \in BagToSet(tbl) : r.date = date

\* EnsureDailySnapshot: snapshots for yesterday are created only when none exists
EnsureDailySnapshot(yesterday, connOk, batchOk, refused) ==
    IF HasSnapshotsForDate(snapshots, yesterday)
    THEN UNCHANGED <<snapshots, selected, currentUsage, stats, deactivated>>
    ELSE CreateSnapshotsForDate(yesterday, connOk, batchOk, refused)

\* ------------------------------------------------------------ replaying one range request
\* a deployment whose billing tables are empty
NoBilling ==
    /\ modules = <<>>
    /\ accountModules = [a \in Accounts |-> {}]
    /\ billingCurrency = [a \in Accounts |-> ""]
    /\ exchangeRates = <<>>
    /\ invoices = {}
    /\ invoiceLines = EmptyBag
    /\ nextInvoiceId = 1
    /\ genLog = [last |-> <<>>, made |-> <<>>]
    /\ gen = <<>>
    /\ retry = <<>>
    /\ dailyCharges = EmptyBag
    /\ clock = 1
    /\ callLog = <<>>

ZeroStats == [d \in Days |-> [created |-> 0, deleted |-> 0]]

RangeAccounts == {1}

InitRange ==
    /\ snapshots = EmptyBag
    /\ selected = RangeAccounts
    /\ \E u \in UnitCounts :
         currentUsage = [a \in Accounts |-> IF a \in RangeAccounts THEN u ELSE 0]
    /\ \E x \in DeactCounts :
         deactivated = [a \in Accounts |-> IF a \in RangeAccounts THEN x ELSE 0]
    /\ rangeReq \in {r \in Days \X Days : r[1] <= r[2]}
    \* GetStatistics(accountIDs, fromDate, toDate + 24h) answers for the days of the range only
    /\ \E s \in [rangeReq[1]..rangeReq[2] -> DayStats] :
         stats = [a \in Accounts |-> IF a \in RangeAccounts THEN s @@ ZeroStats ELSE ZeroStats]
    /\ rewrote = FALSE
    /\ rangeLog = [runs |-> 0, afterFirst |-> EmptyBag, firstClean |-> FALSE, lastClean |-> FALSE]
    /\ NoBilling

RangeKeys == selected \X (rangeReq[1]..rangeReq[2])

RunRange ==
    /\ rangeLog.runs < MaxRuns
    /\ \E connOk \in BOOLEAN, refused \in SUBSET RangeKeys :
         /\ connOk \/ refused = {}
         /\ CreateSnapshotsForRange(rangeReq[1], rangeReq[2], connOk, refused)
         /\ LET clean == connOk /\ refused = {}
            IN rangeLog' = [runs |-> rangeLog.runs + 1,
                            afterFirst |-> IF rangeLog.runs = 0 /\ clean THEN snapshots'
                                           ELSE rangeLog.afterFirst,
                            firstClean |-> IF rangeLog.runs = 0 THEN clean
                                           ELSE rangeLog.firstClean,
                            lastClean |-> clean]
    /\ UNCHANGED <<rangeReq, rewrote, billVars, procVars, auxVars>>

NextRange == RunRange

SpecRange == InitRange /\ [][NextRange]_vars

\* ------------------------------------------------------------ any sequence of snapshot calls
\* Wialon answers of one deployment: account 1 gains a unit a day, account 2 loses one
SnapStats ==
    [a \in Accounts |-> [d \in Days |-> IF a = 1 THEN [created |-> 1, deleted |-> 0]
                                          ELSE [created |-> 0, deleted |-> 1]]]

InitSnap ==
    /\ snapshots = EmptyBag
    /\ selected = Accounts
    /\ \E u \in UnitCounts : currentUsage = [a \in Accounts |-> IF a = 1 THEN MaxUnits ELSE u]
    /\ stats = SnapStats
    /\ deactivated = [a \in Accounts |-> IF a = 1 THEN 1 ELSE 0]
    /\ rewrote = FALSE
    /\ rangeReq = <<1, 1>>
    /\ rangeLog = [runs |-> 0, afterFirst |-> EmptyBag, firstClean |-> FALSE, lastClean |-> FALSE]
    /\ NoBilling

Targets(from, to) == \E a \in selected, d \in from..to : SnapshotsAt(snapshots, a, d) # {}

SnapRange ==
    \E from \in Days, to \in Days, connOk \in BOOLEAN :
        /\ from <= to
        /\ CreateSnapshotsForRange(from, to, connOk, {})
        /\ rewrote' = (rewrote \/ (connOk /\ Targets(from, to)))
        /\ UNCHANGED <<rangeReq, rangeLog, billVars, procVars, auxVars>>

SnapForDate ==
    \E date \in Days, connOk \in BOOLEAN, batchOk \in BOOLEAN,
       refused \in {{}} \cup {{<<a, d>>} : a \in Accounts, d \in Days} :
        /\ refused \subseteq selected \X {date}
        /\ (connOk /\ batchOk) \/ refused = {}
        /\ CreateSnapshotsForDate(date, connOk, batchOk, refused)
        /\ rewrote' = (rewrote \/ (connOk /\ Targets(date, date)))
        /\ UNCHANGED <<rangeReq, rangeLog, billVars, procVars, auxVars>>

SnapEnsure ==
    \E yesterday \in Days, connOk \in BOOLEAN, batchOk \in BOOLEAN :
        /\ EnsureDailySnapshot(yesterday, connOk, batchOk, {})
        /\ rewrote' = (rewrote \/ Targets(yesterday, yesterday))
        /\ UNCHANGED <<rangeReq, rangeLog, billVars, procVars, auxVars>>

NextSnap == SnapRange \/ SnapForDate \/ SnapEnsure

SpecSnap == InitSnap /\ [][NextSnap]_vars

\* ------------------------------------------------------------ C1
\* the series the recurrence of the reconstruction defines: the current usage on the last
\* date of the range, and before it  max(0, next - created(next) + deleted(next))
RECURSIVE ClaimUsage(_, _)
ClaimUsage(a, d) ==
    IF d >= rangeReq[2] THEN currentUsage[a]
    ELSE LET u == ClaimUsage(a, d + 1) - stats[a][d + 1].created + stats[a][d + 1].deleted
         IN IF u < 0 THEN 0 ELSE u

\* C1: every snapshot CreateSnapshotsForRange(from, to) has stored is dated within the range
\* and carries total_units = C on the last date and, on every earlier date d,
\* max(0, total_units[d+1] - created[d+1] + deleted[d+1]); a range of one date stores C only.
C1_BackwardRecurrence ==
    \A r \in BagToSet(snapshots) :
        /\ r.account \in selected
        /\ r.date \in rangeReq[1]..rangeReq[2]
        /\ r.total_units = ClaimUsage(r.account, r.date)
        /\ (r.date = rangeReq[2] => r.total_units = currentUsage[r.account])

RangeStored ==
    \A k \in RangeKeys : RowCount(snapshots, k[1], k[2]) = 1

\* a three-day range fully stored in which the floor at zero was applied on one day and a
\* non-zero count was reconstructed on another
C1_Witness ==
    /\ rangeReq = <<1, 3>>
    /\ RangeStored
    /\ \E a \in selected :
         /\ currentUsage[a] - stats[a][3].created + stats[a][3].deleted < 0
         /\ \E r \in SnapshotsAt(snapshots, a, 2) : r.total_units = 0
         /\ \E r \in SnapshotsAt(snapshots, a, 1) : r.total_units = 1

\* ------------------------------------------------------------ C2
SnapshotColumns(tbl) ==
    {<<r.account, r.date, r.total_units, r.units_created, r.units_deleted, r.units_deactivated>> :
        r \in BagToSet(tbl)}

\* C2: once a first CreateSnapshotsForRange has written its whole range, every later run over
\* the same range with the same usage, deltas and deactivated count leaves the table as the
\* first run left it: one row per (account, date) with the same four columns.
C2_RangeIdempotent ==
    (rangeLog.runs >= 2 /\ rangeLog.firstClean) =>
        /\ SnapshotColumns(snapshots) = SnapshotColumns(rangeLog.afterFirst)
        /\ \A k \in RangeKeys : RowCount(snapshots, k[1], k[2]) = 1
        /\ BagCardinality(snapshots) = Cardinality(RangeKeys)

\* two runs over a range of at least two dates, both with every write accepted
C2_Witness ==
    /\ rangeLog.runs = 2
    /\ rangeLog.firstClean
    /\ rangeLog.lastClean
    /\ rangeReq[1] < rangeReq[2]
    /\ \E r \in BagToSet(snapshots) : r.total_units > 0 /\ r.units_created > 0

\* ------------------------------------------------------------ C3
\* C3: after any sequence of EnsureDailySnapshot, CreateSnapshotsForDate and
\* CreateSnapshotsForRange calls, repeated dates and overlapping ranges included, no
\* (account, date) has more than one snapshot row.
C3_OneSnapshotPerAccountDate ==
    \A a \in Accounts, d \in Days : RowCount(snapshots, a, d) <= 1

\* every account has a row on every day, and some call came back to a date already stored
C3_Witness ==
    /\ rewrote
    /\ \A a \in Accounts, d \in Days : RowCount(snapshots, a, d) = 1

\* ------------------------------------------------------------ calendar
\* Day numbers are grouped into months of DaysPerMonth days; day 1 is the first of month 1.
DaysPerMonth == 2

\* time.Date(period.Year(), period.Month(), 1, ...)
FirstOfMonth(d) == d - ((d - 1) % DaysPerMonth)

\* period.AddDate(0, 1, 0) on a first of month
AddMonth(d) == d + DaysPerMonth

Periods == {FirstOfMonth(d) : d \in Days}

\* ------------------------------------------------------------ money
\* Amounts and rates are counted in hundredths.  A float64 intermediate is the exact
\* fraction num/den; math.Round(x*100)/100 rounds it to hundredths, halves away from zero.
Currencies == {"KZT", "EUR"}

Round(num, den) == (2 * num + den) \div (2 * den)

\* the rate the National Bank publishes for a date, 500.25 + 0.01 per day
NbkRate(date) == 50025 + date

\* ------------------------------------------------------------ exchange rates
ExchangeRate(cur, date, rate) == [currency_from |-> cur, rate_date |-> date, rate |-> rate]

SaveExchangeRate(tbl, row) == Append(tbl, row)

\* a lookup that answers with a default rate when the table has no row
GetExchangeRateOrDefault(tbl, cur, date) ==
    LET hits == {i \in DOMAIN tbl : tbl[i].currency_from = cur /\ tbl[i].rate_date = date}
    IN IF hits = {} THEN NbkRate(date)
       ELSE tbl[CHOOSE i \in hits : \A j \in hits : i <= j].rate

\* 0 stands for gorm.ErrRecordNotFound
GetExchangeRateByDate(tbl, cur, date) ==
    LET hits == {i \in DOMAIN tbl : tbl[i].currency_from = cur /\ tbl[i].rate_date = date}
    IN IF hits = {} THEN 0
       ELSE tbl[CHOOSE i \in hits : \A j \in hits : i <= j].rate

\* published: whether the bank's answer for the date carries the EUR item; a failed
\* request, an unparsable answer and a refused insert all leave the table as it was.  The RUB
\* rows are left out: no module or account of the model is in RUB.
FetchExchangeRatesForDate(tbl, date, published) ==
    IF published THEN SaveExchangeRate(tbl, ExchangeRate("EUR", date, NbkRate(date))) ELSE tbl

\* a check that always finds a rate
CheckRatesAlways(tbl, date) == TRUE

CheckRatesAvailable(tbl, date) == GetExchangeRateByDate(tbl, "EUR", date) # 0

\* the converted amount as a fraction, or ok = FALSE when a rate is missing
convertCurrency(tbl, amount, from, to, date) ==
    LET rateFrom == GetExchangeRateByDate(tbl, from, date)
        rateTo == GetExchangeRateByDate(tbl, to, date)
    IN IF from = to THEN [ok |-> TRUE, num |-> amount, den |-> 1]
       ELSE IF from # "KZT" /\ rateFrom = 0 THEN [ok |-> FALSE, num |-> 0, den |-> 1]
       ELSE LET inKZT == IF from = "KZT" THEN [num |-> amount, den |-> 1]
                         ELSE [num |-> amount * rateFrom, den |-> 100]
            IN IF to = "KZT" THEN [ok |-> TRUE, num |-> inKZT.num, den |-> inKZT.den]
               ELSE IF rateTo = 0 THEN [ok |-> FALSE, num |-> 0, den |-> 1]
               ELSE [ok |-> TRUE, num |-> inKZT.num * 100, den |-> inKZT.den * rateTo]

\* ------------------------------------------------------------ usage of a month
GetSnapshotsByAccountAndPeriod(tbl, a, period) ==
    [r \in {x \in BagToSet(tbl) : x.account = a /\ x.date >= period /\ x.date < AddMonth(period)}
       |-> tbl[r]]

RECURSIVE TotalActiveUnits(_)
TotalActiveUnits(rows) ==
    IF rows = EmptyBag THEN 0
    ELSE LET s == CHOOSE r \in BagToSet(rows) : TRUE
             activeUnits == IF s.total_units - s.units_deactivated < 0 THEN 0
                            ELSE s.total_units - s.units_deactivated
         IN activeUnits + TotalActiveUnits(rows (-) SetToBag({s}))

\* an average over the snapshots of the month instead of its days
calculateAverageOverSnapshots(tbl, a, period) ==
    LET rows == GetSnapshotsByAccountAndPeriod(tbl, a, period)
    IN IF rows = EmptyBag THEN [num |-> 0, den |-> 1]
       ELSE [num |-> TotalActiveUnits(rows), den |-> BagCardinality(rows)]

\* the average as a fraction: the sum of the active units over the days of the month
calculateAverageUnits(tbl, a, period) ==
    [num |-> TotalActiveUnits(GetSnapshotsByAccountAndPeriod(tbl, a, period)), den |-> DaysPerMonth]

\* ------------------------------------------------------------ invoices
ModuleIds == {1, 2}

\* number holds the sequence part of "{contract_number}/{sequence}"; sent_at and paid_at are nil, written 0
Invoice(id, a, period, total, cur, seqNum) ==
    [id |-> id, account_id |-> a, period |-> period, total_amount |-> total,
     currency |-> cur, status |-> "draft", number |-> seqNum, sent_at |-> 0, paid_at |-> 0]

NoInvoice == [id |-> 0]

\* a lookup that passes over the invoices already sent or paid
GetDraftInvoiceByAccountAndPeriod(tbl, a, period) ==
    LET hits == {r \in tbl : r.account_id = a /\ r.period = period /\ r.status = "draft"}
    IN IF hits = {} THEN NoInvoice ELSE CHOOSE r \in hits : \A x \in hits : r.id <= x.id

\* First(): the row with the lowest primary key
GetInvoiceByAccountAndPeriod(tbl, a, period) ==
    LET hits == {r \in tbl : r.account_id = a /\ r.period = period}
    IN IF hits = {} THEN NoInvoice ELSE CHOOSE r \in hits : \A x \in hits : r.id <= x.id

\* a regeneration that leaves the replaced invoice in the table
DeleteInvoiceKeeps(tbl, id) == tbl

\* the lines of the replaced invoice left in place
DeleteInvoiceLinesKeeps(tbl, id) == tbl

DeleteInvoiceLines(tbl, id) == [r \in {x \in BagToSet(tbl) : x.invoice_id # id} |-> tbl[r]]

DeleteInvoice(tbl, id) == {r \in tbl : r.id # id}

CountInvoicesByAccount(tbl, a) == Cardinality({r \in tbl : r.account_id = a})

CreateInvoice(tbl, row) == tbl \cup {row}

CreateInvoiceLine(tbl, row) == tbl (+) SetToBag({row})

\* a line that bills nothing for a price that could not be converted
InvoiceLineZeroOnFailure(rates, m, avgUnits, targetCurrency, rateDate) ==
    LET module == modules[m]
        converted == convertCurrency(rates, module.price, module.currency, targetCurrency, rateDate)
        unitPrice == IF module.currency = targetCurrency THEN module.price
                     ELSE IF converted.ok THEN Round(converted.num, converted.den) ELSE 0
        quantity == IF module.pricing_type = "fixed" THEN 1 ELSE Round(avgUnits.num, avgUnits.den)
        totalPrice == IF module.pricing_type = "fixed" THEN unitPrice
                      ELSE Round(quantity * unitPrice, 1)
    IN [invoice_id |-> 0, module_id |-> m, quantity |-> quantity, unit_price |-> unitPrice,
        total_price |-> totalPrice, currency |-> targetCurrency,
        pricing_type |-> module.pricing_type]

\* a line whose total is rounded from the quantity times the unrounded converted price
InvoiceLineMultipliesFirst(rates, m, avgUnits, targetCurrency, rateDate) ==
    LET module == modules[m]
        converted == convertCurrency(rates, module.price, module.currency, targetCurrency, rateDate)
        isConverted == module.currency # targetCurrency /\ converted.ok
        unitPrice == IF isConverted THEN Round(converted.num, converted.den) ELSE module.price
        quantity == IF module.pricing_type = "fixed" THEN 1 ELSE Round(avgUnits.num, avgUnits.den)
        totalPrice == IF module.pricing_type = "fixed" THEN unitPrice
                      ELSE IF isConverted THEN Round(quantity * converted.num, converted.den)
                      ELSE Round(quantity * unitPrice, 1)
    IN [invoice_id |-> 0, module_id |-> m, quantity |-> quantity, unit_price |-> unitPrice,
        total_price |-> totalPrice, currency |-> targetCurrency,
        pricing_type |-> module.pricing_type]

\* the line of one assigned module, before it has an invoice id
InvoiceLine(rates, m, avgUnits, targetCurrency, rateDate) ==
    LET module == modules[m]
        converted == convertCurrency(rates, module.price, module.currency, targetCurrency, rateDate)
        unitPrice == IF module.currency # targetCurrency /\ converted.ok
                     THEN Round(converted.num, converted.den) ELSE module.price
        quantity == IF module.pricing_type = "fixed" THEN 1 ELSE Round(avgUnits.num, avgUnits.den)
        totalPrice == IF module.pricing_type = "fixed" THEN unitPrice
                      ELSE Round(quantity * unitPrice, 1)
    IN [invoice_id |-> 0, module_id |-> m, quantity |-> quantity, unit_price |-> unitPrice,
        total_price |-> totalPrice, currency |-> targetCurrency,
        pricing_type |-> module.pricing_type]

RECURSIVE TotalAmount(_)
TotalAmount(lines) ==
    IF lines = <<>> THEN 0 ELSE Head(lines).total_price + TotalAmount(Tail(lines))

\* the generation without its zero-total check
IsZeroTotalNever(totalAmount) == FALSE

IsZeroTotal(totalAmount) == totalAmount = 0

\* the step at which a call of the database fails; lines: the modules whose line is refused
NoFault == [at |-> "none", lines |-> {}]

Faults ==
    {[at |-> x, lines |-> {}] :
        x \in {"none", "modules", "snapshots", "deleteLines", "deleteInvoice", "createInvoice"}}
    \cup {[at |-> "createLine", lines |-> {m}] : m \in ModuleIds}

RECURSIVE CreateInvoiceLines(_, _, _, _)
CreateInvoiceLines(tbl, lines, id, refused) ==
    IF lines = <<>> THEN tbl
    ELSE LET line == [Head(lines) EXCEPT !.invoice_id = id]
         IN CreateInvoiceLines(IF line.module_id \in refused THEN tbl
                               ELSE CreateInvoiceLine(tbl, line),
                               Tail(lines), id, refused)

\* what the generation of (a, period) reads
GenInputs(rates, a, period, rateDate) ==
    [modules |-> [m \in accountModules[a] |-> modules[m]],
     snapshots |-> GetSnapshotsByAccountAndPeriod(snapshots, a, period),
     rates |-> [c \in Currencies |-> GetExchangeRateByDate(rates, c, rateDate)],
     currency |-> billingCurrency[a]]

\* db: the invoices table, the lines table, the id sequence and the history
Logged(db, a, period, result) ==
    [db EXCEPT !.log = [last |-> [account |-> a, period |-> period, result |-> result],
                        made |-> [i \in {r.id : r \in db.invoices} \cap DOMAIN db.log.made
                                    |-> db.log.made[i]]]]

generateInvoiceForAccount(db, rates, a, period, rateDate, fault) ==
    LET mods == SetToSeq(accountModules[a])
        avgUnits == IF fault.at = "snapshots" THEN [num |-> 0, den |-> 1]
                    ELSE calculateAverageUnits(snapshots, a, period)
        targetCurrency == IF billingCurrency[a] = "" THEN "KZT" ELSE billingCurrency[a]
        existingInvoice == GetInvoiceByAccountAndPeriod(db.invoices, a, period)
        noLines == [db EXCEPT !.lines = DeleteInvoiceLines(db.lines, existingInvoice.id)]
        deleted == IF existingInvoice = NoInvoice THEN db
                   ELSE [noLines EXCEPT !.invoices = DeleteInvoice(db.invoices, existingInvoice.id)]
        lines == [i \in DOMAIN mods |-> InvoiceLine(rates, mods[i], avgUnits, targetCurrency, rateDate)]
        totalAmount == TotalAmount(lines)
        seqNum == CountInvoicesByAccount(deleted.invoices, a) + 1
        invoice == Invoice(db.nextId, a, period, totalAmount, targetCurrency, seqNum)
        made == [inputs |-> GenInputs(rates, a, period, rateDate),
                 replaced |-> existingInvoice,
                 before |-> IF existingInvoice = NoInvoice THEN NoInvoice
                            ELSE db.log.made[existingInvoice.id].inputs]
    IN IF fault.at = "modules" THEN Logged(db, a, period, "error")
       ELSE IF mods = <<>> THEN Logged(db, a, period, "no_modules")
       ELSE IF existingInvoice # NoInvoice /\ fault.at = "deleteLines"
            THEN Logged(db, a, period, "error")
       ELSE IF existingInvoice # NoInvoice /\ fault.at = "deleteInvoice"
            THEN Logged(noLines, a, period, "error")
       ELSE IF IsZeroTotal(totalAmount) THEN Logged(deleted, a, period, "zero_total")
       ELSE IF fault.at = "createInvoice" THEN Logged(deleted, a, period, "error")
       ELSE Logged([invoices |-> CreateInvoice(deleted.invoices, invoice),
                    lines |-> CreateInvoiceLines(deleted.lines, lines, invoice.id, fault.lines),
                    nextId |-> db.nextId + 1,
                    log |-> [deleted.log EXCEPT !.made = (invoice.id :> made) @@ @]],
                   a, period, "created")

\* a batch that stops at the first account whose generation fails
RECURSIVE GenerateForAccountsAborts(_, _, _, _, _, _)
GenerateForAccountsAborts(db, rates, accs, period, rateDate, faultOf) ==
    IF accs = <<>> THEN db
    ELSE LET next == generateInvoiceForAccount(db, rates, Head(accs), period, rateDate,
                                               faultOf[Head(accs)])
         IN IF next.log.last.result = "error" THEN next
            ELSE GenerateForAccountsAborts(next, rates, Tail(accs), period, rateDate, faultOf)

RECURSIVE GenerateForAccounts(_, _, _, _, _, _)
GenerateForAccounts(db, rates, accs, period, rateDate, faultOf) ==
    IF accs = <<>> THEN db
    ELSE GenerateForAccounts(
             generateInvoiceForAccount(db, rates, Head(accs), period, rateDate, faultOf[Head(accs)]),
             rates, Tail(accs), period, rateDate, faultOf)

Database == [invoices |-> invoices, lines |-> invoiceLines, nextId |-> nextInvoiceId, log |-> genLog]

Commit(db) ==
    /\ invoices' = db.invoices
    /\ invoiceLines' = db.lines
    /\ nextInvoiceId' = db.nextId
    /\ genLog' = db.log

GenerateMonthlyInvoices(date, published, accountsOk, faultOf) ==
    LET period == FirstOfMonth(date)
        rateDate == AddMonth(period)
        rates == FetchExchangeRatesForDate(exchangeRates, rateDate, published)
    IN /\ exchangeRates' = rates
       /\ Commit(IF accountsOk
                 THEN GenerateForAccounts(Database, rates, SetToSeq(selected), period, rateDate, faultOf)
                 ELSE Database)
       /\ UNCHANGED <<modules, accountModules, billingCurrency>>

GenerateInvoiceForSingleAccount(a, date, published, fault) ==
    LET period == FirstOfMonth(date)
        rateDate == AddMonth(period)
        rates == FetchExchangeRatesForDate(exchangeRates, rateDate, published)
    IN /\ exchangeRates' = rates
       /\ Commit(generateInvoiceForAccount(Database, rates, a, period, rateDate, fault))
       /\ UNCHANGED <<modules, accountModules, billingCurrency>>

RecalculateCurrentPeriod(a, now, fault) ==
    LET period == FirstOfMonth(now)
        rateDate == AddMonth(period)
    IN /\ Commit(generateInvoiceForAccount(Database, exchangeRates, a, period, rateDate, fault))
       /\ UNCHANGED <<modules, accountModules, billingCurrency, exchangeRates>>

\* ------------------------------------------------------------ sequential invoice generation
\* Every call of the database succeeds in this specification.
MaxInvoiceId == 3
MaxRateRows == 1

NoGeneration == [last |-> [account |-> 0, period |-> 0, result |-> "none"],
                 made |-> [i \in {} |-> NoInvoice]]

\* module 1: 1.99 EUR per unit; module 2: 10.00 KZT fixed
ModuleCatalog ==
    [m \in ModuleIds |-> IF m = 1 THEN [price |-> 199, currency |-> "EUR", pricing_type |-> "per_unit"]
                         ELSE [price |-> 1000, currency |-> "KZT", pricing_type |-> "fixed"]]

\* account 1 bills in the default currency, account 2 in EUR
InitBilling ==
    /\ selected = Accounts
    /\ currentUsage = [a \in Accounts |-> 0]
    /\ stats = [a \in Accounts |-> ZeroStats]
    /\ deactivated = [a \in Accounts |-> 0]
    /\ rewrote = FALSE
    /\ rangeReq = <<1, 1>>
    /\ rangeLog = [runs |-> 0, afterFirst |-> EmptyBag, firstClean |-> FALSE, lastClean |-> FALSE]
    /\ modules = ModuleCatalog
    /\ billingCurrency = [a \in Accounts |-> IF a = 1 THEN "" ELSE "EUR"]
    /\ exchangeRates = <<>>
    /\ invoices = {}
    /\ invoiceLines = EmptyBag
    /\ nextInvoiceId = 1
    /\ genLog = NoGeneration
    /\ dailyCharges = EmptyBag
    /\ clock = 1

\* account 1 has one snapshot, of no unit or MaxUnits units with one deactivated, on day 1
InitInv ==
    /\ InitBilling
    /\ gen = <<>>
    /\ retry = <<>>
    /\ callLog = <<>>
    /\ \E u \in {0, MaxUnits} : snapshots = SetToBag({Snapshot(1, 1, u, 0, 0, 1)})
    /\ \E ms \in SUBSET ModuleIds : accountModules = [a \in Accounts |-> IF a = 1 THEN ms ELSE {2}]

CanFetch(published) == published => Len(exchangeRates) < MaxRateRows

InvMonthly ==
    \E date \in Days, published \in BOOLEAN, accountsOk \in BOOLEAN :
        /\ CanFetch(published)
        /\ GenerateMonthlyInvoices(date, published, accountsOk, [x \in Accounts |-> NoFault])
        /\ nextInvoiceId' <= MaxInvoiceId + 1
        /\ UNCHANGED <<snapVars, procVars, auxVars>>

InvSingle ==
    \E a \in Accounts, date \in Days, published \in BOOLEAN :
        /\ CanFetch(published)
        /\ GenerateInvoiceForSingleAccount(a, date, published, NoFault)
        /\ nextInvoiceId' <= MaxInvoiceId + 1
        /\ UNCHANGED <<snapVars, procVars, auxVars>>

InvRecalculate ==
    \E a \in Accounts, now \in Days :
        /\ RecalculateCurrentPeriod(a, now, NoFault)
        /\ nextInvoiceId' <= MaxInvoiceId + 1
        /\ UNCHANGED <<snapVars, procVars, auxVars>>

NextInv == InvMonthly \/ InvSingle \/ InvRecalculate

SpecInv == InitInv /\ [][NextInv]_vars

InvoicesOf(a, period) == {r \in invoices : r.account_id = a /\ r.period = period}

LineCount(id, m) ==
    BagCardinality([l \in {x \in BagToSet(invoiceLines) : x.invoice_id = id /\ x.module_id = m}
                      |-> invoiceLines[l]])

C6_NumberNotReused ==
    \A r \in invoices :
        genLog.made[r.id].replaced # NoInvoice => r.number > genLog.made[r.id].replaced.number

\* ------------------------------------------------------------ C7
HasFixedModule(mods) == \E m \in DOMAIN mods : mods[m].pricing_type = "fixed"

\* C7: no invoice is created from an empty module assignment, nor from a month without
\* active units when no fixed-price module is assigned, and no invoice of the table has a
\* total amount of 0.
C7_NoEmptyInvoice ==
    \A r \in invoices :
        LET inp == genLog.made[r.id].inputs
        IN /\ r.total_amount # 0
           /\ DOMAIN inp.modules # {}
           /\ TotalActiveUnits(inp.snapshots) = 0 => HasFixedModule(inp.modules)

\* the batch has gone over an account whose only module is per unit and whose month has no
\* active unit: the other account has its invoice, this one has none
C7_Witness ==
    /\ genLog.last.result = "created"
    /\ genLog.last.account = 2
    /\ accountModules[1] = {1}
    /\ TotalActiveUnits(GetSnapshotsByAccountAndPeriod(snapshots, 1, genLog.last.period)) = 0
    /\ \A r \in invoices : r.account_id # 1
    /\ nextInvoiceId = 2

\* ------------------------------------------------------------ concurrent invoice generation
\* The scheduled job and the manual API call each run generateInvoiceForAccount for the
\* same account and period.  The code opens no transaction and takes no lock, so every call
\* of the database is a step of its own and the steps of the two runs interleave freely.
Procs == {"cron", "api"}

ConcAccount == 1
ConcPeriod == 1

Start(a, period) ==
    [pc |-> "start", account |-> a, period |-> period, mods |-> <<>>,
     avgUnits |-> [num |-> 0, den |-> 1], existing |-> NoInvoice, lines |-> <<>>,
     seqNum |-> 0, id |-> 0]

\* account 1 has both modules and an active unit and has not been invoiced yet
InitConc ==
    /\ InitBilling
    /\ snapshots = SetToBag({Snapshot(ConcAccount, 1, MaxUnits, 0, 0, 1)})
    /\ accountModules = [a \in Accounts |-> IF a = ConcAccount THEN ModuleIds ELSE {}]
    /\ gen = [p \in Procs |-> Start(ConcAccount, ConcPeriod)]
    /\ retry = <<>>
    /\ callLog = <<>>

\* what no step of a generation writes
ConcKeeps == UNCHANGED <<snapVars, modules, accountModules, billingCurrency, genLog, retry, auxVars>>

\* FetchExchangeRatesForDate, GetAccountModules, calculateAverageUnits
ConcStart ==
    \E p \in Procs :
        /\ gen[p].pc = "start"
        /\ \E published \in BOOLEAN :
             /\ CanFetch(published)
             /\ exchangeRates' =
                  FetchExchangeRatesForDate(exchangeRates, AddMonth(gen[p].period), published)
        /\ LET mods == SetToSeq(accountModules[gen[p].account])
           IN gen' = [gen EXCEPT ![p].pc = IF mods = <<>> THEN "done" ELSE "find",
                                 ![p].mods = mods,
                                 ![p].avgUnits = calculateAverageUnits(snapshots, gen[p].account,
                                                                       gen[p].period)]
        /\ UNCHANGED <<invoices, invoiceLines, nextInvoiceId>>
        /\ ConcKeeps

ConcFind ==
    \E p \in Procs :
        /\ gen[p].pc = "find"
        /\ LET existingInvoice == GetInvoiceByAccountAndPeriod(invoices, gen[p].account, gen[p].period)
           IN gen' = [gen EXCEPT ![p].existing = existingInvoice,
                                 ![p].pc = IF existingInvoice = NoInvoice THEN "price"
                                           ELSE "deleteLines"]
        /\ UNCHANGED <<exchangeRates, invoices, invoiceLines, nextInvoiceId>>
        /\ ConcKeeps

ConcDeleteLines ==
    \E p \in Procs :
        /\ gen[p].pc = "deleteLines"
        /\ invoiceLines' = DeleteInvoiceLines(invoiceLines, gen[p].existing.id)
        /\ gen' = [gen EXCEPT ![p].pc = "deleteInvoice"]
        /\ UNCHANGED <<exchangeRates, invoices, nextInvoiceId>>
        /\ ConcKeeps

ConcDeleteInvoice ==
    \E p \in Procs :
        /\ gen[p].pc = "deleteInvoice"
        /\ invoices' = DeleteInvoice(invoices, gen[p].existing.id)
        /\ gen' = [gen EXCEPT ![p].pc = "price"]
        /\ UNCHANGED <<exchangeRates, invoiceLines, nextInvoiceId>>
        /\ ConcKeeps

\* the loop over the modules, with the rates it reads, and the zero-total check
ConcPrice ==
    \E p \in Procs :
        /\ gen[p].pc = "price"
        /\ LET a == gen[p].account
               targetCurrency == IF billingCurrency[a] = "" THEN "KZT" ELSE billingCurrency[a]
               lines == [i \in DOMAIN gen[p].mods |->
                           InvoiceLine(exchangeRates, gen[p].mods[i], gen[p].avgUnits,
                                       targetCurrency, AddMonth(gen[p].period))]
           IN gen' = [gen EXCEPT ![p].lines = lines,
                                 ![p].pc = IF IsZeroTotal(TotalAmount(lines)) THEN "done"
                                           ELSE "count"]
        /\ UNCHANGED <<exchangeRates, invoices, invoiceLines, nextInvoiceId>>
        /\ ConcKeeps

ConcCount ==
    \E p \in Procs :
        /\ gen[p].pc = "count"
        /\ gen' = [gen EXCEPT ![p].seqNum = CountInvoicesByAccount(invoices, gen[p].account) + 1,
                              ![p].pc = "create"]
        /\ UNCHANGED <<exchangeRates, invoices, invoiceLines, nextInvoiceId>>
        /\ ConcKeeps

ConcCreate ==
    \E p \in Procs :
        /\ gen[p].pc = "create"
        /\ LET a == gen[p].account
               targetCurrency == IF billingCurrency[a] = "" THEN "KZT" ELSE billingCurrency[a]
           IN invoices' = CreateInvoice(invoices, Invoice(nextInvoiceId, a, gen[p].period,
                                                          TotalAmount(gen[p].lines), targetCurrency,
                                                          gen[p].seqNum))
        /\ nextInvoiceId' = nextInvoiceId + 1
        /\ gen' = [gen EXCEPT ![p].id = nextInvoiceId, ![p].pc = "lines"]
        /\ UNCHANGED <<exchangeRates, invoiceLines>>
        /\ ConcKeeps

\* one CreateInvoiceLine of the loop over the lines
ConcLine ==
    \E p \in Procs :
        /\ gen[p].pc = "lines"
        /\ invoiceLines' = CreateInvoiceLine(invoiceLines,
                                             [Head(gen[p].lines) EXCEPT !.invoice_id = gen[p].id])
        /\ gen' = [gen EXCEPT ![p].lines = Tail(@),
                              ![p].pc = IF Tail(gen[p].lines) = <<>> THEN "done" ELSE "lines"]
        /\ UNCHANGED <<exchangeRates, invoices, nextInvoiceId>>
        /\ ConcKeeps

\* a run that has returned is called again, at most until MaxInvoiceId ids are used
ConcAgain ==
    \E p \in Procs :
        /\ gen[p].pc = "done"
        /\ nextInvoiceId <= MaxInvoiceId - 1
        /\ gen' = [gen EXCEPT ![p] = Start(gen[p].account, gen[p].period)]
        /\ UNCHANGED <<exchangeRates, invoices, invoiceLines, nextInvoiceId>>
        /\ ConcKeeps

NextConc ==
    \/ ConcStart \/ ConcFind \/ ConcDeleteLines \/ ConcDeleteInvoice \/ ConcPrice
    \/ ConcCount \/ ConcCreate \/ ConcLine \/ ConcAgain

SpecConc == InitConc /\ [][NextConc]_vars

\* ------------------------------------------------------------ C8
\* C8: once the two concurrent generation runs for one (account, period) have both
\* finished, exactly one invoice exists for the pair and every row of the lines table
\* belongs to an invoice of the invoices table.
C8_GenerationsSerialized ==
    (\A p \in Procs : gen[p].pc = "done") =>
        /\ Cardinality(InvoicesOf(ConcAccount, ConcPeriod)) = 1
        /\ \A l \in BagToSet(invoiceLines) : \E r \in invoices : r.id = l.invoice_id

\* ------------------------------------------------------------ the monthly job
\* generateInvoicesWithRetry, started by the cron entry of the first of the month.  Each
\* call it makes and each sleep is a step; the daily rate job may store the rate of the
\* day, which is the rate date, between any two of them.
MaxAttempts == 24

\* the first of the current month; the period is the month before it
RetryNow == AddMonth(1)

\* a generation inside the loop without its return: the loop goes on to its sleep
AfterGenerationNoReturn == "sleep"

\* the return after the generation inside the loop
AfterGeneration == "done"

InitRetry ==
    /\ InitBilling
    /\ callLog = <<>>
    /\ snapshots = SetToBag({Snapshot(1, 1, MaxUnits, 0, 0, 1)})
    /\ accountModules = [a \in Accounts |-> IF a = 1 THEN ModuleIds ELSE {2}]
    /\ gen = <<>>
    /\ retry = [pc |-> "fetch", attempt |-> 1, period |-> FirstOfMonth(RetryNow - DaysPerMonth),
                rateDate |-> FirstOfMonth(RetryNow),
                \* history: failed checks, sleeps, GenerateMonthlyInvoices calls and their
                \* period, and what held when control left the loop for the generation
                failed |-> 0, sleeps |-> 0, calls |-> 0, called |-> 0,
                started |-> [attempt |-> 0, available |-> FALSE]]

RetryKeeps == UNCHANGED <<snapVars, modules, accountModules, billingCurrency, gen, auxVars>>

Starting(r) ==
    [r EXCEPT !.started = [attempt |-> r.attempt,
                           available |-> GetExchangeRateByDate(exchangeRates, "EUR", r.rateDate) # 0]]

RetryFetch ==
    /\ retry.pc = "fetch"
    /\ \E published \in BOOLEAN :
         /\ CanFetch(published)
         /\ exchangeRates' = FetchExchangeRatesForDate(exchangeRates, retry.rateDate, published)
    /\ retry' = [retry EXCEPT !.pc = "check"]
    /\ UNCHANGED <<invoices, invoiceLines, nextInvoiceId, genLog>>
    /\ RetryKeeps

RetryCheck ==
    /\ retry.pc = "check"
    /\ retry' = IF CheckRatesAvailable(exchangeRates, retry.rateDate)
                THEN Starting([retry EXCEPT !.pc = "generate"])
                ELSE [retry EXCEPT !.pc = "sleep", !.failed = @ + 1]
    /\ UNCHANGED <<exchangeRates, invoices, invoiceLines, nextInvoiceId, genLog>>
    /\ RetryKeeps

\* GenerateMonthlyInvoices inside the loop
RetryGenerate ==
    /\ retry.pc = "generate"
    /\ \E published \in BOOLEAN, accountsOk \in BOOLEAN :
         /\ CanFetch(published)
         /\ GenerateMonthlyInvoices(retry.period, published, accountsOk,
                                    [x \in Accounts |-> NoFault])
    /\ retry' = [retry EXCEPT !.pc = AfterGeneration, !.calls = @ + 1, !.called = retry.period]
    /\ UNCHANGED <<snapVars, gen, auxVars>>

\* time.Sleep(1 * time.Hour), attempt++ and the test of the loop
RetrySleep ==
    /\ retry.pc = "sleep"
    /\ retry' = IF retry.attempt + 1 <= MaxAttempts
                THEN [retry EXCEPT !.pc = "fetch", !.attempt = @ + 1, !.sleeps = @ + 1]
                ELSE Starting([retry EXCEPT !.pc = "fallback", !.attempt = @ + 1, !.sleeps = @ + 1])
    /\ UNCHANGED <<exchangeRates, invoices, invoiceLines, nextInvoiceId, genLog>>
    /\ RetryKeeps

\* GenerateMonthlyInvoices after the loop
RetryFallback ==
    /\ retry.pc = "fallback"
    /\ \E published \in BOOLEAN, accountsOk \in BOOLEAN :
         /\ CanFetch(published)
         /\ GenerateMonthlyInvoices(retry.period, published, accountsOk,
                                    [x \in Accounts |-> NoFault])
    /\ retry' = [retry EXCEPT !.pc = "done", !.calls = @ + 1, !.called = retry.period]
    /\ UNCHANGED <<snapVars, gen, auxVars>>

\* FetchExchangeRates of the daily rate job
RateCron ==
    /\ retry.pc # "done"
    /\ CanFetch(TRUE)
    /\ exchangeRates' = FetchExchangeRatesForDate(exchangeRates, RetryNow, TRUE)
    /\ UNCHANGED <<invoices, invoiceLines, nextInvoiceId, genLog, retry>>
    /\ RetryKeeps

RetryStep == RetryFetch \/ RetryCheck \/ RetryGenerate \/ RetrySleep \/ RetryFallback

NextRetry == RetryStep \/ RateCron

SpecRetry == InitRetry /\ [][NextRetry]_vars

\* The goroutine is scheduled as long as it has a step to take: the rate request ends within
\* the 30 s timeout of the HTTP client and the sleep ends after its hour.
SpecRetryFair == SpecRetry /\ WF_vars(RetryStep)

\* ------------------------------------------------------------ C9
\* C9: in every run of generateInvoicesWithRetry, also when no rate for the rate date is
\* ever stored, GenerateMonthlyInvoices is never invoked a second time, and the run reaches
\* its end having invoked it once, for the month before the current one.
C9_RetryTerminates ==
    /\ [](retry.calls <= 1)
    /\ <>(retry.pc = "done" /\ retry.calls = 1 /\ retry.called = RetryNow - DaysPerMonth)

\* the run in which no rate was ever stored has ended after its MaxAttempts failed attempts
C9_Witness ==
    /\ retry.pc = "done"
    /\ retry.failed = MaxAttempts
    /\ retry.calls = 1
    /\ exchangeRates = <<>>
    /\ invoices # {}

\* ------------------------------------------------------------ C10
\* C10: control leaves the loop for the generation only at an attempt whose check found the
\* rate, all earlier attempts having failed, or after MaxAttempts attempts have failed; no
\* attempt is made beyond MaxAttempts; every failed attempt is followed by one sleep; and
\* the loop never goes on after a check that found the rate.
C10_RetryPolicy ==
    /\ retry.attempt <= MaxAttempts + 1
    /\ retry.failed <= MaxAttempts
    /\ retry.sleeps = IF retry.pc = "sleep" THEN retry.failed - 1 ELSE retry.failed
    /\ retry.pc \in {"fetch", "check"} => retry.attempt <= MaxAttempts /\ retry.failed = retry.attempt - 1
    /\ retry.pc = "sleep" => retry.failed = retry.attempt
    /\ retry.pc \in {"generate", "fallback", "done"} =>
         \/ /\ retry.started.available
            /\ retry.started.attempt <= MaxAttempts
            /\ retry.failed = retry.started.attempt - 1
         \/ /\ retry.failed = MaxAttempts
            /\ retry.started.attempt = MaxAttempts + 1

\* a run that found the rate at its third attempt, after two failed attempts and two sleeps
C10_Witness ==
    /\ retry.pc = "done"
    /\ retry.started = [attempt |-> 3, available |-> TRUE]
    /\ retry.failed = 2
    /\ retry.sleeps = 2
    /\ retry.calls = 1

\* ------------------------------------------------------------ daily charges
\* every month of the model has DaysPerMonth days; the code asks the calendar
DaysInMonthThirty(date) == 30

DaysInMonth(date) == DaysPerMonth

\* module_name and snapshot_id are left out: modules have no name here and snapshots no key.
\* daily_cost is the float64 value as an exact fraction.
DailyCharge(snapshot, m, activeUnits) ==
    LET module == modules[m]
    IN [account_id |-> snapshot.account, module_id |-> m, charge_date |-> snapshot.date,
        total_units |-> activeUnits, pricing_type |-> module.pricing_type,
        unit_price |-> module.price, days_in_month |-> DaysInMonth(snapshot.date),
        daily_cost |-> IF module.pricing_type = "fixed" THEN [num |-> module.price, den |-> 1]
                       ELSE [num |-> module.price * activeUnits,
                             den |-> DaysInMonth(snapshot.date)],
        currency |-> module.currency]

ChargesAt(tbl, a, d, m) ==
    {r \in BagToSet(tbl) : r.account_id = a /\ r.charge_date = d /\ r.module_id = m}

\* db.Create without idx_daily_charge_unique and its ON CONFLICT clause
SaveDailyChargesNoIndex(tbl, charges) == tbl (+) BagOfRows(charges, 1)

\* INSERT ... ON CONFLICT (account_id, charge_date, module_id) DO UPDATE SET every other column
SaveDailyCharges(tbl, charges) ==
    LET hit == UNION {ChargesAt(tbl, r.account_id, r.charge_date, r.module_id) : r \in charges}
    IN (tbl (-) [r \in hit |-> tbl[r]]) (+) BagOfRows(charges, 1)

\* the rows of the month left in place
DeleteDailyChargesKeeps(tbl, a, from, to) == tbl

DeleteDailyCharges(tbl, a, from, to) ==
    [r \in {x \in BagToSet(tbl) : ~(x.account_id = a /\ x.charge_date >= from /\ x.charge_date < to)}
       |-> tbl[r]]

\* mods: account.Modules, the ids of the assigned modules; every one of them is in the
\* modules table, so that module.ID is never 0
CalculateDailyCharges(tbl, snapshot, mods) ==
    LET dayOfMonth == snapshot.date - FirstOfMonth(snapshot.date) + 1
        activeUnits == IF snapshot.total_units - snapshot.units_deactivated < 0 THEN 0
                       ELSE snapshot.total_units - snapshot.units_deactivated
        charges == {DailyCharge(snapshot, m, activeUnits) :
                      m \in {x \in mods : modules[x].pricing_type = "fixed" => dayOfMonth = 1}}
    IN IF charges = {} THEN tbl ELSE SaveDailyCharges(tbl, charges)

RECURSIVE ChargeSnapshots(_, _, _)
ChargeSnapshots(tbl, snaps, mods) ==
    IF snaps = {} THEN tbl
    ELSE LET snap == CHOOSE s \in snaps : \A x \in snaps : s.date <= x.date
         IN ChargeSnapshots(CalculateDailyCharges(tbl, snap, mods), snaps \ {snap}, mods)

\* period: the first day of the month (year, month)
CalculateDailyChargesForPeriod(tbl, a, period) ==
    ChargeSnapshots(DeleteDailyCharges(tbl, a, period, AddMonth(period)),
                    BagToSet(GetSnapshotsByAccountAndPeriod(snapshots, a, period)),
                    accountModules[a])

\* DELETE FROM snapshot_units, daily_charges, changes, snapshots
ClearAllSnapshots ==
    /\ snapshots' = EmptyBag
    /\ dailyCharges' = EmptyBag

\* accs: the accounts of the request; an account that has the module already is skipped
AssignModuleBulk(m, accs) ==
    accountModules' = [a \in Accounts |-> IF a \in accs THEN accountModules[a] \cup {m}
                                          ELSE accountModules[a]]

UnassignModuleBulk(m, accs) ==
    accountModules' = [a \in Accounts |-> IF a \in accs THEN accountModules[a] \ {m}
                                          ELSE accountModules[a]]

\* ------------------------------------------------------------ recalculating the charges
\* Account 1 is the account with snapshots; the days are those of the first month and the
\* first day of the second.  Every call of the database succeeds.
ChargeDays == 1..(DaysPerMonth + 1)

NoCall == [op |-> "none"]

InitCharge ==
    /\ InitBilling
    /\ gen = <<>>
    /\ retry = <<>>
    /\ callLog = NoCall
    /\ snapshots = EmptyBag
    /\ accountModules = [a \in Accounts |-> {}]

ChargeKeeps ==
    UNCHANGED <<selected, currentUsage, stats, deactivated, rewrote, rangeReq, rangeLog, modules,
                billingCurrency, exchangeRates, invoices, invoiceLines, nextInvoiceId, genLog,
                procVars, clock>>

\* the snapshot of a day, of 1 or MaxUnits units with one deactivated, written by the daily
\* job: a day that has its row keeps it
ChargeSnapshotTaken ==
    \E d \in ChargeDays, u \in {1, MaxUnits} :
        /\ snapshots' = CreateSnapshot(snapshots, Snapshot(1, d, u, 0, 0, 1))
        /\ callLog' = NoCall
        /\ UNCHANGED <<accountModules, dailyCharges>>
        /\ ChargeKeeps

ChargeAssign ==
    \E m \in ModuleIds :
        /\ AssignModuleBulk(m, {1})
        /\ callLog' = NoCall
        /\ UNCHANGED <<snapshots, dailyCharges>>
        /\ ChargeKeeps

ChargeUnassign ==
    \E m \in ModuleIds :
        /\ UnassignModuleBulk(m, {1})
        /\ callLog' = NoCall
        /\ UNCHANGED <<snapshots, dailyCharges>>
        /\ ChargeKeeps

ChargeClear ==
    /\ ClearAllSnapshots
    /\ callLog' = NoCall
    /\ UNCHANGED accountModules
    /\ ChargeKeeps

\* GetAccountCharges and the other callers of CalculateDailyChargesForPeriod
ChargePeriod ==
    \E a \in Accounts, period \in {FirstOfMonth(d) : d \in ChargeDays} :
        /\ dailyCharges' = CalculateDailyChargesForPeriod(dailyCharges, a, period)
        /\ callLog' = [op |-> "period", account |-> a, period |-> period,
                       before |-> dailyCharges]
        /\ UNCHANGED <<snapshots, accountModules>>
        /\ ChargeKeeps

\* CalculateDailyCharges for one stored snapshot of an account that has modules; again: the
\* call before it was the same call and read the same snapshot and modules
ChargeSnapshot ==
    \E snapshot \in BagToSet(snapshots) :
        LET mods == accountModules[snapshot.account]
            inputs == [snapshot |-> snapshot, modules |-> [m \in mods |-> modules[m]]]
        IN /\ mods # {}
           /\ dailyCharges' = CalculateDailyCharges(dailyCharges, snapshot, mods)
           /\ callLog' = [op |-> "charge", inputs |-> inputs,
                          again |-> callLog.op = "charge" /\ callLog.inputs = inputs,
                          before |-> dailyCharges]
           /\ UNCHANGED <<snapshots, accountModules>>
           /\ ChargeKeeps

NextCharge ==
    ChargeSnapshotTaken \/ ChargeAssign \/ ChargeUnassign \/ ChargeClear \/ ChargePeriod
        \/ ChargeSnapshot

SpecCharge == InitCharge /\ [][NextCharge]_vars

\* ------------------------------------------------------------ C11
\* the daily_charges rows of one module of an account in the month that starts at period
MonthCharges(a, period, m) ==
    {r \in BagToSet(dailyCharges) :
        r.account_id = a /\ r.module_id = m /\ r.charge_date >= period
        /\ r.charge_date < AddMonth(period)}

\* the sum of the daily costs, as a fraction
RECURSIVE SumDailyCost(_)
SumDailyCost(rows) ==
    IF rows = {} THEN [num |-> 0, den |-> 1]
    ELSE LET r == CHOOSE x \in rows : TRUE
             rest == SumDailyCost(rows \ {r})
         IN [num |-> r.daily_cost.num * rest.den + rest.num * r.daily_cost.den,
             den |-> r.daily_cost.den * rest.den]

\* the account has a snapshot of U active units on every day of the month
ConstantUsage(a, period, U) ==
    \A d \in period..(AddMonth(period) - 1) :
        \E s \in SnapshotsAt(snapshots, a, d) :
            U = IF s.total_units - s.units_deactivated < 0 THEN 0
                ELSE s.total_units - s.units_deactivated

\* C11: when the charges of a month have been recalculated for an account that has a snapshot
\* of U active units on every one of the D days of the month, every assigned per_unit module
\* of price P has one row on every day of the month, each with daily_cost = P * U / D, and
\* the daily costs of the module over the month add up to P * U.
C11_PerUnitMonthTotal ==
    callLog.op = "period" =>
        \A m \in accountModules[callLog.account], U \in UnitCounts :
            (modules[m].pricing_type = "per_unit"
             /\ ConstantUsage(callLog.account, callLog.period, U)) =>
                LET rows == MonthCharges(callLog.account, callLog.period, m)
                    P == modules[m].price
                IN /\ \A d \in callLog.period..(AddMonth(callLog.period) - 1) :
                        \E r \in rows :
                            /\ r.charge_date = d
                            /\ dailyCharges[r] = 1
                            /\ r.daily_cost.num * DaysPerMonth = P * U * r.daily_cost.den
                   /\ Cardinality(rows) = DaysPerMonth
                   /\ SumDailyCost(rows).num = P * U * SumDailyCost(rows).den

\* a recalculated month of the per_unit module with the same positive usage on every day
\* and a daily cost that is not a whole number of hundredths
C11_Witness ==
    /\ callLog.op = "period"
    /\ \E m \in accountModules[callLog.account], U \in UnitCounts \ {0} :
         /\ modules[m].pricing_type = "per_unit"
         /\ ConstantUsage(callLog.account, callLog.period, U)
         /\ Cardinality(MonthCharges(callLog.account, callLog.period, m)) = DaysPerMonth
         /\ \E r \in MonthCharges(callLog.account, callLog.period, m) :
              r.daily_cost.num % r.daily_cost.den # 0

\* ------------------------------------------------------------ C12
\* C12: when the charges of a month have been recalculated for an account, every assigned
\* fixed module has exactly one row in that month, dated the first day of the month, with
\* daily_cost equal to the price of the module.
C12_OneFixedChargePerMonth ==
    callLog.op = "period" =>
        \A m \in accountModules[callLog.account] :
            modules[m].pricing_type = "fixed" =>
                LET rows == MonthCharges(callLog.account, callLog.period, m)
                IN /\ Cardinality(rows) = 1
                   /\ \A r \in rows :
                        /\ dailyCharges[r] = 1
                        /\ r.charge_date = callLog.period
                        /\ r.daily_cost = [num |-> modules[m].price, den |-> 1]

\* ------------------------------------------------------------ C13
\* C13: when CalculateDailyCharges runs again for a snapshot, with the snapshot and the
\* assigned modules it read in the call before, the table is the table the earlier call
\* left, and it holds one row of the account and date for every module charged on that day
\* and never two rows of one (account, date, module).
C13_ChargesIdempotent ==
    (callLog.op = "charge" /\ callLog.again) =>
        LET snapshot == callLog.inputs.snapshot
        IN /\ dailyCharges = callLog.before
           /\ \A m \in ModuleIds :
                LET rows == ChargesAt(dailyCharges, snapshot.account, snapshot.date, m)
                    charged == /\ m \in DOMAIN callLog.inputs.modules
                               /\ modules[m].pricing_type = "fixed" =>
                                    snapshot.date = FirstOfMonth(snapshot.date)
                IN /\ Cardinality(rows) <= 1
                   /\ charged => Cardinality(rows) = 1
                   /\ \A r \in rows : dailyCharges[r] = 1

\* a second run for a snapshot of the first day of a month, with both modules charged
C13_Witness ==
    /\ callLog.op = "charge"
    /\ callLog.again
    /\ DOMAIN callLog.inputs.modules = ModuleIds
    /\ \A m \in ModuleIds :
         ChargesAt(dailyCharges, callLog.inputs.snapshot.account,
                   callLog.inputs.snapshot.date, m) # {}

RateCurrencies == Currencies \cup {"RUB"}
RateDates == {1, AddMonth(1)}
Amounts == {0, 199}
MaxStoredRates == MaxRateRows + 2

InitRates ==
    /\ InitBilling
    /\ gen = <<>>
    /\ retry = <<>>
    /\ callLog = NoCall
    /\ snapshots = EmptyBag
    /\ accountModules = [a \in Accounts |-> {}]

RatesKeeps ==
    UNCHANGED <<snapVars, modules, accountModules, billingCurrency, invoices, invoiceLines,
                nextInvoiceId, genLog, procVars, dailyCharges, clock>>

\* FetchExchangeRates of the start and of the daily job, FetchExchangeRatesForDate of the
\* billing cycle: the RUB item is saved as the EUR item is, its rate being that of one unit
RatesFetch ==
    \E date \in RateDates, eur \in BOOLEAN, rub \in BOOLEAN :
        LET fetched == FetchExchangeRatesForDate(exchangeRates, date, eur)
            saved == IF rub
                     THEN SaveExchangeRate(fetched, ExchangeRate("RUB", date, NbkRate(date) \div 100))
                     ELSE fetched
        IN /\ Len(saved) <= MaxStoredRates
           /\ exchangeRates' = saved
           /\ callLog' = [op |-> "fetch", date |-> date, before |-> exchangeRates]
           /\ RatesKeeps

\* one call of convertCurrency on the stored rates
RatesConvert ==
    \E amount \in Amounts, from \in RateCurrencies, to \in RateCurrencies, date \in RateDates :
        /\ callLog' = [op |-> "convert", amount |-> amount, from |-> from, to |-> to,
                       date |-> date,
                       result |-> convertCurrency(exchangeRates, amount, from, to, date)]
        /\ UNCHANGED exchangeRates
        /\ RatesKeeps

NextRates == RatesFetch \/ RatesConvert

SpecRates == InitRates /\ [][NextRates]_vars

\* ------------------------------------------------------------ C14
\* the table has a row of the currency and date
RateStored(cur, date) ==
    \E i \in DOMAIN exchangeRates :
        exchangeRates[i].currency_from = cur /\ exchangeRates[i].rate_date = date

\* C14: a call of convertCurrency with from # to, made when the table has no row of the date
\* for one of the two currencies other than KZT, returns an error and the amount 0; and a
\* call that returns an amount has read every rate it needed from the table.
C14_NoDefaultRate ==
    (callLog.op = "convert" /\ callLog.from # callLog.to) =>
        LET missing == \E cur \in {callLog.from, callLog.to} \ {"KZT"} :
                           ~RateStored(cur, callLog.date)
        IN /\ missing => callLog.result = [ok |-> FALSE, num |-> 0, den |-> 1]
           /\ ~missing => callLog.result.ok

\* a conversion between EUR and RUB refused because only the EUR rate of the date is stored
C14_Witness ==
    /\ callLog.op = "convert"
    /\ callLog.from = "EUR"
    /\ callLog.to = "RUB"
    /\ callLog.amount # 0
    /\ RateStored("EUR", callLog.date)
    /\ ~RateStored("RUB", callLog.date)
    /\ ~callLog.result.ok

\* ------------------------------------------------------------ C15
\* C15: after any number of fetches the table holds at most one row for each currency and
\* date, and a fetch for a date that had a rate leaves GetExchangeRateByDate returning the
\* rate it returned before.
C15_OneRatePerCurrencyDate ==
    /\ \A i \in DOMAIN exchangeRates, j \in DOMAIN exchangeRates :
         (/\ exchangeRates[i].currency_from = exchangeRates[j].currency_from
          /\ exchangeRates[i].rate_date = exchangeRates[j].rate_date) => i = j
    /\ callLog.op = "fetch" =>
         \A cur \in RateCurrencies :
             GetExchangeRateByDate(callLog.before, cur, callLog.date) # 0 =>
                 GetExchangeRateByDate(exchangeRates, cur, callLog.date)
                     = GetExchangeRateByDate(callLog.before, cur, callLog.date)

\* ------------------------------------------------------------ status of an invoice
Statuses == {"draft", "sent", "paid", "overdue"}

GetInvoiceByID(tbl, id) ==
    IF \E r \in tbl : r.id = id THEN CHOOSE r \in tbl : r.id = id ELSE NoInvoice

\* a save that writes the total anew
UpdateInvoiceResetsTotal(tbl, row) ==
    {r \in tbl : r.id # row.id} \cup {[row EXCEPT !.total_amount = 0]}

\* db.Save(invoice): every column of the row, as it was read and changed by the handler
UpdateInvoice(tbl, row) == {r \in tbl : r.id # row.id} \cup {row}

\* a stamp that is written at every call
StampAlways(at, t) == t

\* if invoice.SentAt == nil { invoice.SentAt = &now }; 0 stands for nil
Stamp(at, t) == IF at = 0 THEN t ELSE at

\* the row UpdateInvoiceStatus saves
WithStatus(invoice, status, t) ==
    [invoice EXCEPT !.status = status,
                    !.sent_at = IF status = "sent" THEN Stamp(@, t) ELSE @,
                    !.paid_at = IF status = "paid" THEN Stamp(@, t) ELSE @]

UpdateInvoiceStatus(id, status) ==
    LET invoice == GetInvoiceByID(invoices, id)
    IN IF status \notin Statuses \/ invoice = NoInvoice
       THEN UNCHANGED invoices
       ELSE invoices' = UpdateInvoice(invoices, WithStatus(invoice, status, clock))

\* delivered: the account has a buyer email, the settings are there, the PDF is built and
\* the mail server takes the message
SendInvoiceEmail(id, delivered) ==
    LET inv == GetInvoiceByID(invoices, id)
    IN IF inv = NoInvoice \/ ~delivered
       THEN UNCHANGED invoices
       ELSE invoices' = UpdateInvoice(invoices, [inv EXCEPT !.status = "sent",
                                                           !.sent_at = Stamp(@, clock)])

\* db.Save(module) with the row of the request
UpdateModule(m, row) == modules' = [modules EXCEPT ![m] = row]

SetCurrencyBulk(accs, currency) ==
    billingCurrency' = [a \in Accounts |-> IF a \in accs THEN currency ELSE billingCurrency[a]]

\* ------------------------------------------------------------ sending and paying invoices
\* Account 1, with both modules, is invoiced for the first month and the invoice is
\* regenerated, sent and paid.  Every call of the database succeeds.  A status call takes
\* the time of the clock, and the clock moves on; there are at most MaxStatusCalls of them.
MaxStatusCalls == 2

\* history: for every invoice of the table, the time at which a call first left it sent and
\* the time at which a call first left it paid
Called(op) ==
    [op |-> op,
     first |-> [id \in {r.id : r \in invoices'} |->
                  LET r == GetInvoiceByID(invoices', id)
                      was == IF id \in DOMAIN callLog.first THEN callLog.first[id]
                             ELSE [sent |-> 0, paid |-> 0]
                  IN [sent |-> IF was.sent = 0 /\ r.status = "sent" THEN clock ELSE was.sent,
                      paid |-> IF was.paid = 0 /\ r.status = "paid" THEN clock ELSE was.paid]]]

InitStatus ==
    /\ InitBilling
    /\ gen = <<>>
    /\ retry = <<>>
    /\ callLog = [op |-> "none", first |-> <<>>]
    /\ snapshots = SetToBag({Snapshot(1, 1, MaxUnits, 0, 0, 1)})
    /\ accountModules = [a \in Accounts |-> IF a = 1 THEN ModuleIds ELSE {}]

StatusKeeps == UNCHANGED <<snapVars, procVars, dailyCharges>>

StatusGenerate ==
    \E now \in Days :
        /\ RecalculateCurrentPeriod(1, now, NoFault)
        /\ nextInvoiceId' <= MaxInvoiceId + 1
        /\ callLog' = Called("generate")
        /\ UNCHANGED clock
        /\ StatusKeeps

StatusUpdate ==
    \E id \in 1..MaxInvoiceId, status \in Statuses \cup {"void"} :
        /\ clock <= MaxStatusCalls
        /\ UpdateInvoiceStatus(id, status)
        /\ clock' = clock + 1
        /\ UNCHANGED <<modules, accountModules, billingCurrency, exchangeRates, invoiceLines,
                       nextInvoiceId, genLog>>
        /\ callLog' = Called("status")
        /\ StatusKeeps

StatusSend ==
    \E id \in 1..MaxInvoiceId, delivered \in BOOLEAN :
        /\ clock <= MaxStatusCalls
        /\ SendInvoiceEmail(id, delivered)
        /\ clock' = clock + 1
        /\ UNCHANGED <<modules, accountModules, billingCurrency, exchangeRates, invoiceLines,
                       nextInvoiceId, genLog>>
        /\ callLog' = Called("send")
        /\ StatusKeeps

NextStatus == StatusGenerate \/ StatusUpdate \/ StatusSend

SpecStatus == InitStatus /\ [][NextStatus]_vars

\* ------------------------------------------------------------ C16
\* C16: an invoice that generation has just created is a draft without sent_at and paid_at;
\* and after any calls of UpdateInvoiceStatus and SendInvoiceEmail the status of every
\* invoice is draft, sent, paid or overdue, its sent_at is the time of the call that first
\* left it sent and its paid_at the time of the call that first left it paid, each nil if
\* there was no such call.
C16_StatusLifecycle ==
    /\ (callLog.op = "generate" /\ genLog.last.result = "created") =>
         \A r \in InvoicesOf(genLog.last.account, genLog.last.period) :
             r.status = "draft" /\ r.sent_at = 0 /\ r.paid_at = 0
    /\ \A r \in invoices :
         /\ r.status \in Statuses
         /\ r.sent_at = callLog.first[r.id].sent
         /\ r.paid_at = callLog.first[r.id].paid
         /\ r.status = "sent" => r.sent_at # 0
         /\ r.status = "paid" => r.paid_at # 0

\* an invoice sent at one time and sent again at a later time, with the first time kept
C16_Witness ==
    /\ callLog.op \in {"status", "send"}
    /\ \E r \in invoices : r.status = "sent" /\ r.sent_at # 0 /\ r.sent_at + 1 < clock

\* ------------------------------------------------------------ invoices while the world changes
\* Account 1 is invoiced for the first month and regenerated while it loses modules, takes
\* EUR as its currency, module 1 is edited and its invoices are sent.  The creation of the
\* invoice row can fail; every other call of the database succeeds.  No rate is stored, so
\* a price in another currency is billed as it stands.

\* the row an administrator saves over module 1: for free, and in KZT
EditedModule == [ModuleCatalog[1] EXCEPT !.price = 0, !.currency = "KZT"]

CreateFault == [at |-> "createInvoice", lines |-> {}]

\* history: the latest call, the step at which it was made to fail, and the invoices and
\* lines it found
Found(op, fault) ==
    [op |-> op, fault |-> fault, before |-> [invoices |-> invoices, lines |-> invoiceLines]]

InitFrozen ==
    /\ InitBilling
    /\ gen = <<>>
    /\ retry = <<>>
    /\ callLog = [op |-> "none", fault |-> "none",
                  before |-> [invoices |-> {}, lines |-> EmptyBag]]
    /\ snapshots = SetToBag({Snapshot(1, 1, MaxUnits, 0, 0, 1)})
    /\ accountModules = [a \in Accounts |-> IF a = 1 THEN ModuleIds ELSE {}]

FrozenKeeps == UNCHANGED <<snapVars, procVars, dailyCharges, exchangeRates, clock>>

FrozenGenerate ==
    \E fault \in {NoFault, CreateFault} :
        /\ RecalculateCurrentPeriod(1, 1, fault)
        /\ nextInvoiceId' <= MaxInvoiceId + 1
        /\ callLog' = Found("generate", fault.at)
        /\ UNCHANGED <<snapVars, procVars, dailyCharges, clock>>

FrozenStatus ==
    \E id \in 1..MaxInvoiceId :
        /\ UpdateInvoiceStatus(id, "sent")
        /\ callLog' = Found("status", "none")
        /\ UNCHANGED <<modules, accountModules, billingCurrency, invoiceLines, nextInvoiceId,
                       genLog>>
        /\ FrozenKeeps

FrozenUpdateModule ==
    /\ UpdateModule(1, EditedModule)
    /\ callLog' = Found("module", "none")
    /\ UNCHANGED <<accountModules, billingCurrency, invoices, invoiceLines, nextInvoiceId,
                   genLog>>
    /\ FrozenKeeps

FrozenSetCurrency ==
    /\ SetCurrencyBulk({1}, "EUR")
    /\ callLog' = Found("currency", "none")
    /\ UNCHANGED <<modules, accountModules, invoices, invoiceLines, nextInvoiceId, genLog>>
    /\ FrozenKeeps

FrozenUnassign ==
    \E m \in ModuleIds :
        /\ UnassignModuleBulk(m, {1})
        /\ callLog' = Found("unassign", "none")
        /\ UNCHANGED <<modules, billingCurrency, invoices, invoiceLines, nextInvoiceId, genLog>>
        /\ FrozenKeeps

NextFrozen ==
    FrozenGenerate \/ FrozenStatus \/ FrozenUpdateModule \/ FrozenSetCurrency
        \/ FrozenUnassign

SpecFrozen == InitFrozen /\ [][NextFrozen]_vars

\* ------------------------------------------------------------ C17
\* what generation wrote of an invoice
Billed(tbl) ==
    {[id |-> r.id, account_id |-> r.account_id, period |-> r.period,
      total_amount |-> r.total_amount, currency |-> r.currency] : r \in tbl}

\* C17: a call that saves a module with another price and currency, SetCurrencyBulk, or a
\* call that changes the status of an invoice leaves the invoice_lines table as it was and
\* every invoice with the total amount and currency it had.
C17_InvoicesFrozen ==
    callLog.op \in {"module", "currency", "status"} =>
        /\ invoiceLines = callLog.before.lines
        /\ Billed(invoices) = Billed(callLog.before.invoices)

\* module 1 has just been saved with another price while an invoice holds a line of it at
\* the old price; that invoice was sent before, and the account has changed its currency
\* since it was billed
C17_Witness ==
    /\ callLog.op = "module"
    /\ \E r \in invoices :
         /\ r.status = "sent"
         /\ r.currency # billingCurrency[r.account_id]
         /\ \E l \in BagToSet(invoiceLines) :
              /\ l.invoice_id = r.id
              /\ l.module_id = 1
              /\ l.unit_price # modules[1].price

\* ------------------------------------------------------------ C18
\* C18: when a generation finds an invoice of its (account, period) and the creation of the
\* new invoice row fails, the call returns the error, and the tables hold no invoice of the
\* (account, period) and no line of the invoice that was found.
C18_NoRollback ==
    (/\ callLog.op = "generate"
     /\ callLog.fault = "createInvoice"
     /\ genLog.last.result \notin {"no_modules", "zero_total"}) =>
        LET found == {r \in callLog.before.invoices :
                        r.account_id = genLog.last.account /\ r.period = genLog.last.period}
        IN found # {} =>
             /\ genLog.last.result = "error"
             /\ InvoicesOf(genLog.last.account, genLog.last.period) = {}
             /\ \A r \in found, m \in ModuleIds : LineCount(r.id, m) = 0

\* a failed regeneration of an invoice that had been sent and had two lines
C18_Witness ==
    /\ callLog.op = "generate"
    /\ callLog.fault = "createInvoice"
    /\ genLog.last.result = "error"
    /\ \E r \in callLog.before.invoices :
         /\ r.account_id = genLog.last.account
         /\ r.period = genLog.last.period
         /\ r.status = "sent"
         /\ \A m \in ModuleIds :
              \E l \in BagToSet(callLog.before.lines) : l.invoice_id = r.id /\ l.module_id = m
    /\ invoices = {}

\* ------------------------------------------------------------ C19
\* C19: a generation that ends without an invoice, because the account has no module or
\* because the total is zero, leaves the invoices and invoice_lines tables as it found
\* them.
C19_NoInvoiceNoChange ==
    (callLog.op = "generate" /\ genLog.last.result \in {"no_modules", "zero_total"}) =>
        /\ invoices = callLog.before.invoices
        /\ invoiceLines = callLog.before.lines

\* ------------------------------------------------------------ generation under database faults
\* The monthly batch and the single-account generation of the first period, in which any
\* call of the database may fail.  Account 1 has both modules and a snapshot; account 2 has
\* one module and no snapshot, so that its per-unit total is zero and its fixed total is
\* not.  No rate is published.

\* the list the loop of GenerateMonthlyInvoices appends to: the invoice of every account
\* whose generation returned one
RECURSIVE GeneratedInvoices(_, _, _, _, _, _)
GeneratedInvoices(db, rates, accs, period, rateDate, faultOf) ==
    IF accs = <<>> THEN <<>>
    ELSE LET next == generateInvoiceForAccount(db, rates, Head(accs), period, rateDate,
                                               faultOf[Head(accs)])
             rest == GeneratedInvoices(next, rates, Tail(accs), period, rateDate, faultOf)
         IN IF next.log.last.result = "created"
            THEN <<CHOOSE r \in next.invoices : r.id = db.nextId>> \o rest
            ELSE rest

\* the faults of a call: a database call that fails at one step, for one account at most
FaultCases == {f \in Faults : f.at # "snapshots"}

OneFault == {faultOf \in [Accounts -> FaultCases] :
               Cardinality({a \in Accounts : faultOf[a] # NoFault}) <= 1}

\* history: the latest call, its accounts, the fault of each, the invoices it returned, the
\* accounts that had an invoice of the period and the id the next invoice was to get
Returned(op, accs, period, faultOf) ==
    [op |-> op, accounts |-> accs, period |-> period, faultOf |-> faultOf,
     returned |-> GeneratedInvoices(Database, exchangeRates, SetToSeq(accs), period,
                                    AddMonth(period), faultOf),
     found |-> {a \in Accounts : InvoicesOf(a, period) # {}},
     firstId |-> nextInvoiceId]

InitFault ==
    /\ InitBilling
    /\ gen = <<>>
    /\ retry = <<>>
    /\ callLog = [op |-> "none", accounts |-> {}, period |-> 0,
                  faultOf |-> [x \in Accounts |-> NoFault], returned |-> <<>>,
                  found |-> {}, firstId |-> 1]
    /\ snapshots = SetToBag({Snapshot(1, 1, MaxUnits, 0, 0, 1)})
    /\ \E m \in ModuleIds : accountModules = [a \in Accounts |-> IF a = 1 THEN ModuleIds ELSE {m}]

FaultMonthly ==
    \E date \in {DaysPerMonth}, accountsOk \in BOOLEAN, faultOf \in OneFault :
        /\ GenerateMonthlyInvoices(date, FALSE, accountsOk, faultOf)
        /\ nextInvoiceId' <= MaxInvoiceId + 1
        /\ callLog' = Returned("monthly", IF accountsOk THEN selected ELSE {},
                               FirstOfMonth(date), faultOf)
        /\ UNCHANGED <<snapVars, procVars, dailyCharges, clock>>

FaultSingle ==
    \E a \in Accounts, date \in {DaysPerMonth}, fault \in FaultCases :
        /\ GenerateInvoiceForSingleAccount(a, date, FALSE, fault)
        /\ nextInvoiceId' <= MaxInvoiceId + 1
        /\ callLog' = Returned("single", {a}, FirstOfMonth(date),
                               [x \in Accounts |-> IF x = a THEN fault ELSE NoFault])
        /\ UNCHANGED <<snapVars, procVars, dailyCharges, clock>>

NextFault == FaultMonthly \/ FaultSingle

SpecFault == InitFault /\ [][NextFault]_vars

\* ------------------------------------------------------------ C21
\* the step of the call at which the generation of account a met a failing write
WriteFailed(a) ==
    LET f == callLog.faultOf[a]
    IN \/ f.at \in {"deleteLines", "deleteInvoice"} /\ a \in callLog.found
       \/ f.at = "createInvoice"
       \/ f.at = "createLine" /\ f.lines \cap accountModules[a] # {}

\* C21: when a write of the database fails during the generation of an account (the
\* deletion of the old invoice or of its lines, the creation of the invoice, the creation
\* of a line), the call returns no invoice of that account, and every invoice a call
\* returns has in the lines table one line for each module of its account.
C21_WriteFailureAborts ==
    \A i \in DOMAIN callLog.returned :
        LET r == callLog.returned[i]
        IN /\ ~WriteFailed(r.account_id)
           /\ \A m \in accountModules[r.account_id] : LineCount(r.id, m) = 1

\* ------------------------------------------------------------ C22
\* the generation of account a returned an error
GenerationFailed(a) ==
    LET f == callLog.faultOf[a]
    IN \/ f.at = "modules"
       \/ f.at \in {"deleteLines", "deleteInvoice"} /\ a \in callLog.found
       \/ f.at = "createInvoice"

\* account a has something to bill for the period of the call
Billable(a) ==
    \/ \E m \in accountModules[a] : modules[m].pricing_type = "fixed"
    \/ /\ accountModules[a] # {}
       /\ TotalActiveUnits(GetSnapshotsByAccountAndPeriod(snapshots, a, callLog.period)) > 0

\* the invoices the latest call created
MadeByCall == {r \in invoices : r.id >= callLog.firstId}

\* C22: after a run of GenerateMonthlyInvoices that could read the accounts, whatever
\* account's generation failed, the invoices the run created are those of the accounts
\* whose generation did not fail and that had a non-zero total, one each, and the list the
\* run returns holds exactly these invoices.
C22_BatchContinues ==
    (callLog.op = "monthly" /\ callLog.accounts # {}) =>
        /\ {callLog.returned[i] : i \in DOMAIN callLog.returned} = MadeByCall
        /\ Len(callLog.returned) = Cardinality(MadeByCall)
        /\ \A a \in callLog.accounts :
             Cardinality({r \in MadeByCall : r.account_id = a /\ r.period = callLog.period})
                 = IF ~GenerationFailed(a) /\ Billable(a) THEN 1 ELSE 0

\* the run met a failing creation of the invoice of account 1, the first account of the
\* batch, and returned the invoice of account 2 alone
C22_Witness ==
    /\ callLog.op = "monthly"
    /\ callLog.accounts = Accounts
    /\ callLog.faultOf[1].at = "createInvoice"
    /\ genLog.last.account = 2
    /\ Len(callLog.returned) = 1
    /\ callLog.returned[1].account_id = 2
    /\ callLog.returned[1] \in invoices
    /\ InvoicesOf(1, callLog.period) = {}

\* ------------------------------------------------------------ C28
RECURSIVE SumTotalPrice(_, _)
SumTotalPrice(tbl, rows) ==
    IF rows = {} THEN 0
    ELSE LET l == CHOOSE x \in rows : TRUE
         IN l.total_price * tbl[l] + SumTotalPrice(tbl, rows \ {l})

\* the persisted lines of an invoice
LinesOf(id) == {l \in BagToSet(invoiceLines) : l.invoice_id = id}

\* C28: the total amount of every invoice of the table is the sum of the total prices of
\* its lines in the lines table, and the currency of each of these lines is the currency
\* of the invoice, which is the billing currency of the account, KZT when it has none.
C28_TotalIsSumOfLines ==
    \A r \in invoices :
        /\ r.total_amount = SumTotalPrice(invoiceLines, LinesOf(r.id))
        /\ \A l \in LinesOf(r.id) : l.currency = r.currency
        /\ r.currency = IF billingCurrency[r.account_id] = "" THEN "KZT"
                        ELSE billingCurrency[r.account_id]

\* ------------------------------------------------------------ C27
\* C27: after any sequence of generations and regenerations run one after the other, two
\* different invoices of one account that are in the table together have different
\* numbers.
C27_NumbersDistinct ==
    \A r1 \in invoices, r2 \in invoices :
        (r1.account_id = r2.account_id /\ r1.id # r2.id) => r1.number # r2.number

Ensured(op) == [op |-> op, date |-> clock]

\* no snapshot yet, no call yet
InitEnsure == InitSnap

EnsureKeeps == UNCHANGED <<rewrote, rangeReq, rangeLog, billVars, procVars, dailyCharges>>

Refusals(date) == {{}} \cup {{<<a, date>>} : a \in selected}

EnsureHourly ==
    \E connOk \in BOOLEAN, batchOk \in BOOLEAN, refused \in Refusals(clock) :
        /\ EnsureDailySnapshot(clock, connOk, batchOk, refused)
        /\ callLog' = Ensured("cron")
        /\ UNCHANGED clock
        /\ EnsureKeeps

EnsureStartup ==
    \E connOk \in BOOLEAN, batchOk \in BOOLEAN, refused \in Refusals(clock) :
        /\ EnsureDailySnapshot(clock, connOk, batchOk, refused)
        /\ callLog' = Ensured("startup")
        /\ UNCHANGED clock
        /\ EnsureKeeps

EnsureNextDay ==
    /\ clock < MaxDay
    /\ clock' = clock + 1
    /\ callLog' = Ensured("midnight")
    /\ UNCHANGED snapVars
    /\ EnsureKeeps

NextEnsure == EnsureHourly \/ EnsureStartup \/ EnsureNextDay

SpecEnsure == InitEnsure /\ [][NextEnsure]_vars

Usages == {<<MaxUnits, 0>>, <<1, MaxUnits>>, <<100, 0>>}

PriceAccount == CHOOSE a \in Accounts : \A b \in Accounts : a <= b

PriceCatalog(eurPrice) ==
    [m \in ModuleIds |->
        IF m = 1 THEN [price |-> eurPrice, currency |-> "EUR", pricing_type |-> "per_unit"]
        ELSE [price |-> 1000, currency |-> "USD", pricing_type |-> "fixed"]]

\* history: the latest call, its period, and whether the bank had the rates of the date asked
Priced(op, period, published) == [op |-> op, period |-> period, published |-> published]

InitPrice ==
    /\ selected = Accounts
    /\ currentUsage = [a \in Accounts |-> 0]
    /\ stats = [a \in Accounts |-> ZeroStats]
    /\ deactivated = [a \in Accounts |-> 0]
    /\ rewrote = FALSE
    /\ rangeReq = <<1, 1>>
    /\ rangeLog = [runs |-> 0, afterFirst |-> EmptyBag, firstClean |-> FALSE, lastClean |-> FALSE]
    /\ \E eurPrice \in {199, 200} : modules = PriceCatalog(eurPrice)
    /\ accountModules = [a \in Accounts |-> IF a = PriceAccount THEN ModuleIds ELSE {}]
    /\ billingCurrency = [a \in Accounts |-> ""]
    /\ \E stored \in BOOLEAN :
         exchangeRates = IF stored THEN <<ExchangeRate("EUR", AddMonth(1), 50000)>> ELSE <<>>
    /\ \E days \in SUBSET (1..DaysPerMonth) :
         \E usage \in [days -> Usages] :
             snapshots = SetToBag({Snapshot(PriceAccount, d, usage[d][1], 0, 0, usage[d][2]) :
                                     d \in days})
    /\ invoices = {}
    /\ invoiceLines = EmptyBag
    /\ nextInvoiceId = 1
    /\ genLog = NoGeneration
    /\ gen = <<>>
    /\ retry = <<>>
    /\ dailyCharges = EmptyBag
    /\ clock = 1
    /\ callLog = Priced("none", 0, FALSE)

PriceKeeps == UNCHANGED <<snapVars, procVars, dailyCharges, clock>>

PriceMonthly ==
    \E published \in BOOLEAN :
        /\ CanFetch(published)
        /\ GenerateMonthlyInvoices(1, published, TRUE, [x \in Accounts |-> NoFault])
        /\ nextInvoiceId' <= MaxInvoiceId + 1
        /\ callLog' = Priced("monthly", FirstOfMonth(1), published)
        /\ PriceKeeps

PriceSingle ==
    \E published \in BOOLEAN :
        /\ CanFetch(published)
        /\ GenerateInvoiceForSingleAccount(PriceAccount, 1, published, NoFault)
        /\ nextInvoiceId' <= MaxInvoiceId + 1
        /\ callLog' = Priced("single", FirstOfMonth(1), published)
        /\ PriceKeeps

\* published: the bank has the rates of the date, whether or not the call asks for them
PriceRecalculate ==
    \E published \in BOOLEAN :
        /\ CanFetch(published)
        /\ RecalculateCurrentPeriod(PriceAccount, 1, NoFault)
        /\ nextInvoiceId' <= MaxInvoiceId + 1
        /\ callLog' = Priced("recalculate", FirstOfMonth(1), published)
        /\ PriceKeeps

NextPrice == PriceMonthly \/ PriceSingle \/ PriceRecalculate

SpecPrice == InitPrice /\ [][NextPrice]_vars

\* ------------------------------------------------------------ C23
\* the line of invoice id for module m
LineOf(id, m) == CHOOSE l \in LinesOf(id) : l.module_id = m

\* the price of a module in KZT at a rate of its currency, rounded to hundredths; 0
\* stands for no rate
Converted(price, rate) == IF rate = 0 THEN price ELSE Round(price * rate, 100)

\* C23: a call that creates an invoice stores one line for every module of the account,
\* also when the price of a module cannot be converted: the unit price of a module whose
\* currency has no rate at the rate date is the price of the module as it stands, and the
\* unit price of a module whose currency has a rate is its price converted at that rate.
C23_UnconvertedLineKept ==
    (callLog.op # "none" /\ genLog.last.result = "created") =>
        \A r \in InvoicesOf(genLog.last.account, genLog.last.period) :
            \A m \in accountModules[r.account_id] :
                /\ LineCount(r.id, m) = 1
                /\ LineOf(r.id, m).unit_price =
                       Converted(modules[m].price,
                                 GetExchangeRateByDate(exchangeRates, modules[m].currency,
                                                       AddMonth(r.period)))

\* an invoice in KZT whose EUR line is converted at the stored rate and whose USD line,
\* for which no rate exists, carries the USD price
C23_Witness ==
    /\ callLog.op # "none"
    /\ genLog.last.result = "created"
    /\ \E r \in InvoicesOf(genLog.last.account, genLog.last.period) :
         /\ r.currency = "KZT"
         /\ GetExchangeRateByDate(exchangeRates, "EUR", AddMonth(r.period)) # 0
         /\ GetExchangeRateByDate(exchangeRates, "USD", AddMonth(r.period)) = 0
         /\ LineOf(r.id, 1).unit_price > modules[1].price
         /\ LineOf(r.id, 2).unit_price = modules[2].price
         /\ LineOf(r.id, 2).currency = "KZT"
         /\ r.total_amount = LineOf(r.id, 1).total_price + LineOf(r.id, 2).total_price

\* ------------------------------------------------------------ C24
\* C24: after a call of GenerateMonthlyInvoices, GenerateInvoiceForSingleAccount or
\* RecalculateCurrentPeriod made while the bank has the rates of the first day of the month
\* after the period, the rate of that date is in the table and the lines of the invoice
\* are priced with it; and a call made while the bank has no rates still ends without an
\* error.
C24_FetchBeforePricing ==
    callLog.op \in {"monthly", "single", "recalculate"} =>
        LET rate == GetExchangeRateByDate(exchangeRates, "EUR", AddMonth(callLog.period))
        IN /\ callLog.published => rate # 0
           /\ genLog.last.result # "error"
           /\ \A r \in InvoicesOf(PriceAccount, callLog.period) :
                LineOf(r.id, 1).unit_price = Converted(modules[1].price, rate)

\* ------------------------------------------------------------ C25
\* C25: the per-unit line of an invoice has as quantity the average of the month rounded to
\* a whole number, as unit price the module price converted at the rate the generation
\* read and rounded to hundredths, and as total the quantity times that rounded unit price.
C25_ConvertRoundMultiply ==
    \A r \in invoices :
        LET g == genLog.made[r.id]
            avg == calculateAverageUnits(g.inputs.snapshots, r.account_id, r.period)
        IN \A m \in DOMAIN g.inputs.modules :
               g.inputs.modules[m].pricing_type = "per_unit" =>
                   /\ LineCount(r.id, m) = 1
                   /\ LineOf(r.id, m).quantity = Round(avg.num, avg.den)
                   /\ LineOf(r.id, m).unit_price =
                          Converted(g.inputs.modules[m].price,
                                    g.inputs.rates[g.inputs.modules[m].currency])
                   /\ LineOf(r.id, m).total_price
                          = LineOf(r.id, m).quantity * LineOf(r.id, m).unit_price

\* 100 units on average at 2.00 EUR and a rate of 500.00: 100 times 1000.00 is 100000.00
C25_Witness ==
    \E r \in invoices :
        /\ genLog.made[r.id].inputs.modules[1].price = 200
        /\ genLog.made[r.id].inputs.rates["EUR"] = 50000
        /\ LineOf(r.id, 1).quantity = 100
        /\ LineOf(r.id, 1).unit_price = 100000
        /\ LineOf(r.id, 1).total_price = 10000000

\* ------------------------------------------------------------ C26
\* the active units of the snapshot of account a on day d, 0 without a snapshot
ActiveOn(a, d) ==
    IF SnapshotsAt(snapshots, a, d) = {} THEN 0
    ELSE LET s == CHOOSE x \in SnapshotsAt(snapshots, a, d) : TRUE
         IN IF s.total_units > s.units_deactivated THEN s.total_units - s.units_deactivated
            ELSE 0

RECURSIVE ActiveUpTo(_, _, _)
ActiveUpTo(a, period, n) ==
    IF n = 0 THEN 0 ELSE ActiveOn(a, period + n - 1) + ActiveUpTo(a, period, n - 1)

\* C26: the average active units of the month of an account is the sum of
\* max(0, total_units - units_deactivated) over the snapshots of the month divided by the
\* number of days of the month, 0 when the month has no snapshot; this average, rounded,
\* is the quantity of the per-unit line of the invoice of the month.
C26_AverageOverDays ==
    \A period \in Periods :
        LET avg == calculateAverageUnits(snapshots, PriceAccount, period)
        IN /\ avg.num * DaysPerMonth = ActiveUpTo(PriceAccount, period, DaysPerMonth) * avg.den
           /\ GetSnapshotsByAccountAndPeriod(snapshots, PriceAccount, period) = EmptyBag
                  => avg.num = 0
           /\ \A r \in InvoicesOf(PriceAccount, period) :
                  LineOf(r.id, 1).quantity
                      = Round(ActiveUpTo(PriceAccount, period, DaysPerMonth), DaysPerMonth)

\* an invoice of a month that has a single snapshot, of 100 active units: the average is
\* 100 over the days of the month, not 100
C26_Witness ==
    \E r \in invoices :
        /\ BagCardinality(GetSnapshotsByAccountAndPeriod(snapshots, r.account_id, r.period)) = 1
        /\ ActiveUpTo(r.account_id, r.period, DaysPerMonth) = 100
        /\ LineOf(r.id, 1).quantity = Round(100, DaysPerMonth)
        /\ LineOf(r.id, 1).quantity < 100
====
